---- MODULE Spec2Model ----
(***************************************************************************)
(* Model of the bulletin-board backend in api/index.py: the submission     *)
(* handler create_post (identity resolution, ban check, rate check,        *)
(* ban_user, post writer, auto-reply) and the listing handler get_posts,   *)
(* running against the four tables of the record store.  Every store call  *)
(* of a handler is one atomic step; handlers of different requests         *)
(* interleave between store calls, and any store call may raise.           *)
(***************************************************************************)
EXTENDS Integers, Sequences, FiniteSets, Bags, TLC

(* ------------------------------------------------------------------ *)
(* Program constants                                                   *)
(* ------------------------------------------------------------------ *)
RATE_LIMIT_COUNT == 5
RATE_LIMIT_WINDOW_SECONDS == 10
MsPerSecond == 1000
BotDelayMs == 10
MaxBodyLen == 200
MaxImageLen == 500000

(* ------------------------------------------------------------------ *)
(* Bounds of the model                                                 *)
(* ------------------------------------------------------------------ *)
\* requests in one behaviour of Spec
MaxReq == 3
\* requests of Spec in progress at once
MaxOverlap == 2
\* requests in one behaviour of SpecSeq; one at a time
MaxReqSeq == 2
\* submissions in one behaviour of SpecList
MaxReqList == 1
\* store calls that raise in one behaviour
MaxFaults == 1
\* listing requests in one behaviour of SpecList
MaxList == 1
\* SpecGrown: bursts of RATE_LIMIT_COUNT posts the store has taken before
GrownBursts == 20

Reqs == 1..MaxOverlap

\* origin addresses and the identifiers generate_public_id may draw
IPs == {"ip1", "ip2"}
PublicIds == {"a", "b"}
\* instants (ms) the clock may be advanced to; 0 and 10000 are whole seconds
Times == {10000, 10010}
\* the same, while requests overlap
TimesConc == {10010}

None == "None"

(* ------------------------------------------------------------------ *)
(* Strings: a string is a sequence of characters                       *)
(* ------------------------------------------------------------------ *)
Whitespace == {" ", "\n", "\t"}

RECURSIVE LStrip(_)
LStrip(s) == IF s # <<>> /\ Head(s) \in Whitespace THEN LStrip(Tail(s)) ELSE s

RECURSIVE RStrip(_)
RStrip(s) ==
  IF s # <<>> /\ s[Len(s)] \in Whitespace THEN RStrip(SubSeq(s, 1, Len(s) - 1)) ELSE s

\* str.strip()
Strip(s) == RStrip(LStrip(s))

TestStr == <<"t", "e", "s", "t">>
HiStr == <<"h", "i">>
PaddedTest == <<" ">> \o TestStr \o <<"\n">>
AckBody == <<"ack">>
AnonName == <<"anon">>
SystemName == <<"sys">>
\* the ban notice f"ID: {public_id} ..."
BanNotice(public_id) == <<"ban:", public_id>>

(* ------------------------------------------------------------------ *)
(* Timestamps                                                          *)
(* ------------------------------------------------------------------ *)
\* datetime.isoformat().replace('+00:00', 'Z'): the fractional part is
\* printed only when it is not zero
IsoFormat(t) ==
  [sec |-> t \div MsPerSecond, frac |-> t % MsPerSecond, has_frac |-> (t % MsPerSecond) # 0]

\* the instant a timestamp column holds for a stored ISO string
TsValue(iso) == iso.sec * MsPerSecond + (IF iso.has_frac THEN iso.frac ELSE 0)

(* ------------------------------------------------------------------ *)
(* Submissions                                                         *)
(* ------------------------------------------------------------------ *)
\* image_base64 inputs: None, or a data URI that decodes to an image that
\* compresses below the limit ("ok"), one that stays above it ("big"), or
\* one that is no data URI / no image ("malformed")
Images == {None, "ok", "big", "malformed"}

\* PostData as received: body_given is FALSE when the JSON has no "body" key
Submission(given, body, image) ==
  [body_given |-> given, body |-> body, image_base64 |-> image]

\* a body one character above the limit, between blanks
LongBody == <<" ">> \o [i \in 1..(MaxBodyLen + 1) |-> "x"] \o <<" ">>

Submissions ==
  { Submission(TRUE, HiStr, None),
    Submission(TRUE, PaddedTest, None),
    Submission(TRUE, TestStr, "ok"),
    Submission(TRUE, <<" ">>, None),
    Submission(TRUE, HiStr, "big"),
    Submission(TRUE, HiStr, "malformed") }

\* the same, with an empty body beside an image, a body above the limit and
\* a JSON without "body"
SubmissionsVal ==
  Submissions \cup
  { Submission(TRUE, <<>>, "ok"),
    Submission(TRUE, LongBody, None),
    Submission(FALSE, <<>>, None) }

\* the submissions of Spec and SpecList
SubmissionsConc == {Submission(TRUE, HiStr, None), Submission(TRUE, PaddedTest, None)}

\* PostData.check_body_and_image, called with v = the raw body.  The validator
\* of `body` runs before image_base64 is validated, so values.data holds no
\* image_base64 key and image_data is None.
ValidatorImageData(image) == None

check_body_and_image(v, image) ==
  LET image_data == ValidatorImageData(image)
      clean_body == Strip(v)
  IN  IF clean_body = <<>> /\ image_data = None THEN [ok |-> FALSE, body |-> <<>>]
      ELSE IF clean_body # <<>> /\ Len(clean_body) > MaxBodyLen
           THEN [ok |-> FALSE, body |-> <<>>]
           ELSE [ok |-> TRUE, body |-> clean_body]

\* PostData(...): the field validator runs only on a body that was given; an
\* omitted body takes the default "" unvalidated
PostData(sub) ==
  IF sub.body_given THEN check_body_and_image(sub.body, sub.image_base64)
  ELSE [ok |-> TRUE, body |-> <<>>]

\* compress_and_re_encode_base64: the error it raises, or the new data URI
\* and its length
compress_and_re_encode_base64(image) ==
  CASE image = "malformed" -> [err |-> "ValueError", uri |-> <<>>, len |-> 0]
    [] image = "big" -> [err |-> None, uri |-> <<"data:image/jpeg;base64,", "big">>,
                         len |-> MaxImageLen + 1]
    [] OTHER -> [err |-> None, uri |-> <<"data:image/jpeg;base64,", "ok">>,
                 len |-> MaxImageLen]

(* ------------------------------------------------------------------ *)
(* State                                                               *)
(* ------------------------------------------------------------------ *)
VARIABLES
  clock,              \* datetime.now(timezone.utc), in ms
  ip_to_id,           \* table ip_to_id: set of rows
  ban_list,           \* table ban_list: set of rows
  post_activity_log,  \* table post_activity_log: bag of rows
  posts,              \* table posts: bag of rows
  req,                \* the create_post requests: position and locals
  lst,                \* the get_posts request: position and locals
  started,            \* number of create_post requests received
  faults,             \* number of store calls that raised
  listed,             \* number of get_posts requests received
  before              \* SpecSeq: the tables when the current request arrived

vars == <<clock, ip_to_id, ban_list, post_activity_log, posts, req, lst,
          started, faults, listed, before>>
tables == <<ip_to_id, ban_list, post_activity_log, posts>>
Snapshot ==
  [ip_to_id |-> ip_to_id, ban_list |-> ban_list,
   post_activity_log |-> post_activity_log, posts |-> posts]

IdleReq ==
  [pc |-> "idle", client_ip |-> None, sub |-> Submission(FALSE, <<>>, None),
   clean_body |-> <<>>, assigned_public_id |-> None, known |-> FALSE,
   post_count |-> 0, banned_seen |-> FALSE, post_body_to_save |-> <<>>,
   is_image_post |-> FALSE, current_time |-> 0, status |-> 0,
   response |-> [message |-> None, public_id |-> None],
   tried |-> {}, failed |-> {},
   wrote |-> [ip_to_id |-> {}, ban_list |-> {}, posts |-> {}, post_activity_log |-> {}]]

IdleList ==
  [pc |-> "idle", ip |-> None, public_id |-> None, target_public_id |-> None,
   queried |-> FALSE,
   status |-> 0, posts |-> <<>>, at_lookup |-> {}, at_query |-> EmptyBag]

UserPost(public_id, body, client_ip, t) ==
  [public_id |-> public_id, name |-> AnonName, body |-> body,
   client_ip |-> client_ip, created_at |-> IsoFormat(t)]

SystemPost(public_id, body, t) ==
  [public_id |-> public_id, name |-> SystemName, body |-> body,
   client_ip |-> "0.0.0.0", created_at |-> IsoFormat(t)]

LogRow(public_id, t) == [public_id |-> public_id, posted_at |-> IsoFormat(t)]

\* The store after k text posts submitted from ip1 at instant 0 under the
\* identifier "a", one after another.  The rate check accepts a post while
\* fewer than RATE_LIMIT_COUNT rows are logged: up to RATE_LIMIT_COUNT posts
\* leave one mapping, k posts and k log rows; the next one leaves the ban
\* record and the notification post instead.
SeedCounts == {0, RATE_LIMIT_COUNT - 1}
SeedCountsSeq == {0, RATE_LIMIT_COUNT - 2, RATE_LIMIT_COUNT - 1, RATE_LIMIT_COUNT + 1}
SeedCountsList == {0, RATE_LIMIT_COUNT - 2, RATE_LIMIT_COUNT}
SeedCountsVal == {0, RATE_LIMIT_COUNT}

\* the bag holding k copies of row
Copies(row, k) == IF k = 0 THEN EmptyBag ELSE [x \in {row} |-> k]

\* the retention cap of the culling revisions; this handler has none
RetentionCap == 100

\* insert(row), followed by the eviction of one oldest row above the cap
InsertCulled(table, row) ==
  LET grown == table (+) SetToBag({row})
      At(x) == IF "created_at" \in DOMAIN x THEN TsValue(x.created_at)
               ELSE TsValue(x.posted_at)
      oldest == CHOOSE o \in BagToSet(grown) : \A g \in BagToSet(grown) : At(o) <= At(g)
  IN  IF BagCardinality(grown) > RetentionCap THEN grown (-) SetToBag({oldest}) ELSE grown
\* an upsert on public_id: the row takes the place of the rows of its author
InsertReplacing(table, row) ==
  LET keep == {x \in BagToSet(table) : x.public_id # row.public_id}
  IN  [x \in keep |-> table[x]] (+) SetToBag({row})
\* insert(row).execute(): the one effect is the new row
Insert(table, row) == table (+) SetToBag({row})

SeedStore(k) ==
  LET accepted == IF k > RATE_LIMIT_COUNT THEN RATE_LIMIT_COUNT ELSE k
      banned == k > RATE_LIMIT_COUNT
  IN  /\ ip_to_id = IF k = 0 THEN {} ELSE {[ip_address |-> "ip1", public_id |-> "a"]}
      /\ ban_list = IF banned THEN {[public_id |-> "a", reason |-> "rate"]} ELSE {}
      /\ posts = Copies(UserPost("a", HiStr, "ip1", 0), accepted) (+)
                 Copies(SystemPost("system", BanNotice("a"), 0), IF banned THEN 1 ELSE 0)
      /\ post_activity_log = Copies(LogRow("a", 0), accepted)

InitWith(seeds) ==
  /\ clock = 0
  /\ \E k \in seeds : SeedStore(k)
  /\ req = [r \in Reqs |-> IdleReq]
  /\ lst = IdleList
  /\ started = 0
  /\ faults = 0
  /\ listed = 0
  /\ before = Snapshot

\* The store after GrownBursts bursts of RATE_LIMIT_COUNT text posts from ip1
\* under the identifier "a": the latest burst at instant 0, each earlier one a
\* window and a second before the next, so that every post was accepted.
GrownGapMs == (RATE_LIMIT_WINDOW_SECONDS + 1) * MsPerSecond
GrownStore ==
  LET at == {0 - i * GrownGapMs : i \in 0..(GrownBursts - 1)}
  IN  /\ ip_to_id = {[ip_address |-> "ip1", public_id |-> "a"]}
      /\ ban_list = {}
      /\ posts = [row \in {UserPost("a", HiStr, "ip1", t) : t \in at} |-> RATE_LIMIT_COUNT]
      /\ post_activity_log = [row \in {LogRow("a", t) : t \in at} |-> RATE_LIMIT_COUNT]

InitGrown ==
  /\ clock = 0
  /\ GrownStore
  /\ req = [r \in Reqs |-> IdleReq]
  /\ lst = IdleList
  /\ started = 0
  /\ faults = 0
  /\ listed = 0
  /\ before = Snapshot

Init == InitWith(SeedCounts)
InitSeq == InitWith(SeedCountsSeq)
InitList == InitWith(SeedCountsList)
InitVal == InitWith(SeedCountsVal)

(* ------------------------------------------------------------------ *)
(* The record store                                                    *)
(* ------------------------------------------------------------------ *)
\* a store call either answers (TRUE) or raises (FALSE)
StoreOutcomes == IF faults < MaxFaults THEN {TRUE, FALSE} ELSE {TRUE}
Charge(ok) == faults' = IF ok THEN faults ELSE faults + 1

\* select public_id from ip_to_id where ip_address = ip limit 1
SelectMappingBug(ip) == {row \in ip_to_id : row.public_id = ip}
SelectMapping(ip) == {row \in ip_to_id : row.ip_address = ip}

\* ip_to_id accepts one mapping per ip_address
IpToIdAccepts(ip) == \A row \in ip_to_id : row.ip_address # ip

\* ban_list accepts one record per public_id
BanListAccepts(public_id) == \A row \in ban_list : row.public_id # public_id

\* select from ban_list where public_id = p limit 1
SelectBan(public_id) == {row \in ban_list : row.public_id = public_id}

\* select count(*) from post_activity_log where public_id = p and posted_at >= threshold
RECURSIVE CountRows(_, _)
CountRows(table, rows) ==
  IF rows = {} THEN 0
  ELSE LET row == CHOOSE x \in rows : TRUE
       IN  CopiesIn(row, table) + CountRows(table, rows \ {row})

CountActivityBug(public_id, time_threshold_iso) ==
  CountRows(post_activity_log,
    {row \in BagToSet(post_activity_log) :
       /\ row.public_id = public_id
       /\ TsValue(row.posted_at) > TsValue(time_threshold_iso)})
CountActivity(public_id, time_threshold_iso) ==
  CountRows(post_activity_log,
    {row \in BagToSet(post_activity_log) :
       /\ row.public_id = public_id
       /\ TsValue(row.posted_at) >= TsValue(time_threshold_iso)})

(* ------------------------------------------------------------------ *)
(* create_post                                                         *)
(* ------------------------------------------------------------------ *)
Set(r, fields) == req' = [req EXCEPT ![r] = fields]

\* the handler raised HTTPException(code)
Abort(q, code) == [q EXCEPT !.pc = "done", !.status = code]

\* time passes
Tick(t) ==
  /\ t > clock
  /\ clock' = t
  /\ UNCHANGED <<tables, req, lst, started, faults, listed, before>>

\* lines 120-144: a request arrives; PostData validation, the header and
\* body locals, then the lookup of the address in ip_to_id
Lookup(r, ip, sub, ok) ==
  /\ LET v == PostData(sub)
         q == [IdleReq EXCEPT !.client_ip = ip, !.sub = sub,
                             !.clean_body = Strip(v.body), !.tried = {"lookup"}]
         ip_data == SelectMapping(ip)
     IN  IF ~v.ok
         THEN ok /\ Set(r, Abort([IdleReq EXCEPT !.client_ip = ip, !.sub = sub], 422))
         ELSE IF ~ok THEN Set(r, Abort([q EXCEPT !.failed = {"lookup"}], 500))
         ELSE IF ip_data # {}
              THEN \E row \in ip_data :
                     Set(r, [q EXCEPT !.pc = "ban_check", !.known = TRUE,
                                      !.assigned_public_id = row.public_id])
              ELSE Set(r, [q EXCEPT !.pc = "assign"])
  /\ started' = started + 1
  /\ Charge(ok)
  /\ UNCHANGED <<clock, tables, lst, listed>>

\* lines 146-158: draw a new identifier and insert the mapping
AssignAbortBug(q, new_public_id) ==
  [q EXCEPT !.pc = "ban_check", !.failed = @ \cup {"assign"},
            !.assigned_public_id = new_public_id]
AssignAbort(q, new_public_id) == Abort([q EXCEPT !.failed = @ \cup {"assign"}], 500)

Assign(r, new_public_id, ok) ==
  /\ req[r].pc = "assign"
  /\ LET q == [req[r] EXCEPT !.tried = @ \cup {"assign"}]
     IN  IF ok /\ IpToIdAccepts(q.client_ip)
         THEN /\ ip_to_id' = ip_to_id \cup
                    {[ip_address |-> q.client_ip, public_id |-> new_public_id]}
              /\ Set(r, [q EXCEPT !.pc = "ban_check",
                    !.assigned_public_id = new_public_id,
                    !.wrote.ip_to_id = {[ip_address |-> q.client_ip, public_id |-> new_public_id]}])
         ELSE /\ UNCHANGED ip_to_id
              /\ Set(r, AssignAbort(q, new_public_id))
  /\ Charge(ok)
  /\ UNCHANGED <<clock, ban_list, post_activity_log, posts, lst, started, listed, before>>

\* lines 160-174: the ban check
BanFoundBug(q) == [q EXCEPT !.pc = "rate_check"]
BanFound(q) == Abort(q, 403)

BanCheck(r, ok) ==
  /\ req[r].pc = "ban_check"
  /\ LET ban_check_response == SelectBan(req[r].assigned_public_id)
         q == [req[r] EXCEPT !.tried = @ \cup {"ban_check"},
                             !.banned_seen = ok /\ ban_check_response # {}]
     IN  IF ~ok THEN Set(r, Abort([q EXCEPT !.failed = @ \cup {"ban_check"}], 500))
         ELSE IF ban_check_response # {} THEN Set(r, BanFound(q))
              ELSE Set(r, [q EXCEPT !.pc = "rate_check"])
  /\ Charge(ok)
  /\ UNCHANGED <<clock, tables, lst, started, listed, before>>

\* lines 176-196: the rate check
RateLimitTrippedBug(post_count) == post_count > RATE_LIMIT_COUNT
RateLimitTripped(post_count) == post_count >= RATE_LIMIT_COUNT

\* lines 194-196: the count query raised
RateCheckFailedBug(q) ==
  [q EXCEPT !.pc = "prepare", !.post_count = 0, !.failed = @ \cup {"rate_check"}]
RateCheckFailed(q) == Abort([q EXCEPT !.failed = @ \cup {"rate_check"}], 500)

RateCheck(r, ok) ==
  /\ req[r].pc = "rate_check"
  /\ LET q == [req[r] EXCEPT !.tried = @ \cup {"rate_check"}]
         time_threshold == clock - RATE_LIMIT_WINDOW_SECONDS * MsPerSecond
         post_count == CountActivity(q.assigned_public_id, IsoFormat(time_threshold))
     IN  IF ~ok THEN Set(r, RateCheckFailed(q))
         ELSE IF RateLimitTripped(post_count)
              THEN Set(r, [q EXCEPT !.pc = "ban_insert", !.post_count = post_count])
              ELSE Set(r, [q EXCEPT !.pc = "prepare", !.post_count = post_count])
  /\ Charge(ok)
  /\ UNCHANGED <<clock, tables, lst, started, listed, before>>

\* ban_user, lines 64-71: insert the ban record; an error is printed only
BanRecord(public_id) == [public_id |-> public_id, reason |-> "rate"]

BanInsertFailedBug(q) == Abort([q EXCEPT !.failed = @ \cup {"ban_insert"}], 500)
BanInsertFailed(q) == [q EXCEPT !.pc = "notify", !.failed = @ \cup {"ban_insert"}]

BanInsert(r, ok) ==
  /\ req[r].pc = "ban_insert"
  /\ LET q == [req[r] EXCEPT !.tried = @ \cup {"ban_insert"}]
     IN  IF ok /\ BanListAccepts(q.assigned_public_id)
         THEN /\ ban_list' = ban_list \cup {BanRecord(q.assigned_public_id)}
              /\ Set(r, [q EXCEPT !.pc = "notify",
                                  !.wrote.ban_list = {BanRecord(q.assigned_public_id)}])
         ELSE /\ UNCHANGED ban_list
              /\ Set(r, BanInsertFailed(q))
  /\ Charge(ok)
  /\ UNCHANGED <<clock, ip_to_id, post_activity_log, posts, lst, started, listed, before>>

\* ban_user, lines 73-84, then line 190: insert the notification post (an
\* error is printed only) and reject the request
RateRejected(q) == Abort(q, 429)

NotificationPostBug(public_id, t) == SystemPost(public_id, BanNotice(public_id), t)
NotificationPost(public_id, t) == SystemPost("system", BanNotice(public_id), t)

Notify(r, ok) ==
  /\ req[r].pc = "notify"
  /\ LET q == [req[r] EXCEPT !.tried = @ \cup {"notify"}]
         notification_post == NotificationPost(q.assigned_public_id, clock)
     IN  IF ok
         THEN /\ posts' = Insert(posts, notification_post)
              /\ Set(r, RateRejected([q EXCEPT !.wrote.posts = @ \cup {notification_post}]))
         ELSE /\ UNCHANGED posts
              /\ Set(r, RateRejected([q EXCEPT !.failed = @ \cup {"notify"}]))
  /\ Charge(ok)
  /\ UNCHANGED <<clock, ip_to_id, ban_list, post_activity_log, lst, started, listed, before>>

\* lines 198-225: image processing, then the post's timestamp
Prepare(r) ==
  /\ req[r].pc = "prepare"
  /\ LET q == req[r]
         image == q.sub.image_base64
         c == compress_and_re_encode_base64(image)
         timed == [q EXCEPT !.pc = "insert_post", !.current_time = clock]
     IN  IF image = None
         THEN Set(r, [timed EXCEPT !.post_body_to_save = q.clean_body])
         ELSE IF c.err = "ValueError" THEN Set(r, Abort(q, 400))
         \* the HTTPException(400) of line 208 is raised inside the try and
         \* caught by `except Exception` on line 212
         ELSE IF c.len > MaxImageLen
              THEN Set(r, Abort([q EXCEPT !.post_body_to_save = c.uri,
                                          !.is_image_post = TRUE], 500))
              ELSE Set(r, [timed EXCEPT !.post_body_to_save = c.uri,
                                        !.is_image_post = TRUE])
  /\ UNCHANGED <<clock, tables, lst, started, faults, listed, before>>

NewPost(q) ==
  UserPost(q.assigned_public_id, q.post_body_to_save, q.client_ip, q.current_time)

\* line 228: insert the post
InsertPost(r, ok) ==
  /\ req[r].pc = "insert_post"
  /\ LET q == [req[r] EXCEPT !.tried = @ \cup {"insert_post"}]
     IN  IF ok
         THEN /\ posts' = Insert(posts, NewPost(q))
              /\ Set(r, [q EXCEPT !.pc = "insert_log", !.wrote.posts = @ \cup {NewPost(q)}])
         ELSE /\ UNCHANGED posts
              /\ Set(r, Abort([q EXCEPT !.failed = @ \cup {"insert_post"}], 500))
  /\ Charge(ok)
  /\ UNCHANGED <<clock, ip_to_id, ban_list, post_activity_log, lst, started, listed, before>>

\* line 252
Succeed(q) ==
  [q EXCEPT !.pc = "done", !.status = 200,
            !.response = [message |-> "ok", public_id |-> NewPost(q).public_id]]

\* line 235
AutoReplyTriggered(q) == q.clean_body = TestStr /\ ~q.is_image_post

\* lines 230-235: insert the activity-log row
InsertLog(r, ok) ==
  /\ req[r].pc = "insert_log"
  /\ LET q == [req[r] EXCEPT !.tried = @ \cup {"insert_log"}]
         logged == [q EXCEPT !.wrote.post_activity_log =
                                {LogRow(q.assigned_public_id, q.current_time)}]
     IN  IF ok
         THEN /\ post_activity_log' =
                   Insert(post_activity_log, LogRow(q.assigned_public_id, q.current_time))
              /\ IF AutoReplyTriggered(q) THEN Set(r, [logged EXCEPT !.pc = "bot_reply"])
                 ELSE Set(r, Succeed(logged))
         ELSE /\ UNCHANGED post_activity_log
              /\ Set(r, Abort([q EXCEPT !.failed = @ \cup {"insert_log"}], 500))
  /\ Charge(ok)
  /\ UNCHANGED <<clock, ip_to_id, ban_list, posts, lst, started, listed, before>>

\* line 236
BotResponseTimeBug(current_time) == current_time
BotResponseTime(current_time) == current_time + BotDelayMs

\* lines 247-250: an error is printed only
BotReplyFailedBug(q) == Abort([q EXCEPT !.failed = @ \cup {"bot_reply"}], 500)
BotReplyFailed(q) == Succeed([q EXCEPT !.failed = @ \cup {"bot_reply"}])

\* lines 236-252: insert the auto-reply and answer
BotReply(r, ok) ==
  /\ req[r].pc = "bot_reply"
  /\ LET q == [req[r] EXCEPT !.tried = @ \cup {"bot_reply"}]
         bot_post == SystemPost("systems", AckBody, BotResponseTime(q.current_time))
     IN  IF ok
         THEN /\ posts' = Insert(posts, bot_post)
              /\ Set(r, Succeed([q EXCEPT !.wrote.posts = @ \cup {bot_post}]))
         ELSE /\ UNCHANGED posts
              /\ Set(r, BotReplyFailed(q))
  /\ Charge(ok)
  /\ UNCHANGED <<clock, ip_to_id, ban_list, post_activity_log, lst, started, listed, before>>

(* ------------------------------------------------------------------ *)
(* get_posts                                                           *)
(* ------------------------------------------------------------------ *)
\* line 262: select public_id, name, body, created_at
Columns(row) ==
  [public_id |-> row.public_id, name |-> row.name, body |-> row.body,
   created_at |-> row.created_at]

RECURSIVE SelectColumns(_, _)
SelectColumns(table, rows) ==
  IF rows = {} THEN EmptyBag
  ELSE LET row == CHOOSE x \in rows : TRUE
       IN  Copies(Columns(row), CopiesIn(row, table)) (+) SelectColumns(table, rows \ {row})

\* the store's answers to order("created_at", desc): every listing of the
\* rows in that order; rows of equal created_at come in any order
RECURSIVE Ordered(_, _)
Ordered(rows, desc) ==
  IF rows = EmptyBag THEN {<<>>}
  ELSE LET first == {f \in BagToSet(rows) : \A g \in BagToSet(rows) :
                       IF desc THEN TsValue(f.created_at) >= TsValue(g.created_at)
                       ELSE TsValue(f.created_at) <= TsValue(g.created_at)}
       IN  UNION {{<<f>> \o rest : rest \in Ordered(rows (-) SetToBag({f}), desc)} :
                  f \in first}

\* line 263
OrderDescBug == FALSE
OrderDesc == TRUE

\* line 276: query.eq("public_id", target_public_id)
FilterByTargetBug(row, target_public_id) == TRUE
FilterByTarget(row, target_public_id) == row.public_id = target_public_id

\* the query strings of a listing request: ?ip=, none, or ?public_id=
ListQueries ==
  {[ip |-> ip, public_id |-> None] : ip \in IPs \cup {None}} \cup
  {[ip |-> None, public_id |-> p] : p \in PublicIds}

\* lines 259-265: a listing request arrives.  get_posts declares the one
\* parameter ip; a public_id in the query string is bound to nothing
ListArrive(ip, public_id) ==
  /\ listed < MaxList
  /\ lst.pc \in {"idle", "done"}
  /\ lst' = [IdleList EXCEPT !.ip = ip, !.public_id = public_id,
                             !.pc = IF ip # None THEN "lookup" ELSE "query"]
  /\ listed' = listed + 1
  /\ UNCHANGED <<clock, tables, req, started, faults, before>>

\* lines 266-278: resolve the address; no mapping answers the empty list
ListLookup(ok) ==
  /\ lst.pc = "lookup"
  /\ LET ip_data == SelectMapping(lst.ip)
         q == [lst EXCEPT !.at_lookup = {row \in ip_to_id : row.ip_address = lst.ip}]
     IN  IF ~ok THEN lst' = [lst EXCEPT !.pc = "done", !.status = 500]
         ELSE IF ip_data # {}
              THEN \E row \in ip_data :
                     lst' = [q EXCEPT !.pc = "query", !.target_public_id = row.public_id]
              ELSE lst' = [q EXCEPT !.pc = "done", !.status = 200, !.posts = <<>>]
  /\ Charge(ok)
  /\ UNCHANGED <<clock, tables, req, started, listed, before>>

\* lines 280-286: run the query and answer
ListQuery(ok) ==
  /\ lst.pc = "query"
  /\ LET hits == {row \in BagToSet(posts) :
                    lst.ip # None => FilterByTarget(row, lst.target_public_id)}
     IN  IF ~ok THEN lst' = [lst EXCEPT !.pc = "done", !.status = 500, !.queried = TRUE]
         ELSE \E data \in Ordered(SelectColumns(posts, hits), OrderDesc) :
                lst' = [lst EXCEPT !.pc = "done", !.status = 200, !.posts = data,
                                   !.queried = TRUE, !.at_query = posts]
  /\ Charge(ok)
  /\ UNCHANGED <<clock, tables, req, started, listed, before>>

(* ------------------------------------------------------------------ *)
(* Specifications                                                      *)
(* ------------------------------------------------------------------ *)
Step(r) ==
  \/ \E ok \in StoreOutcomes : \E id \in PublicIds : Assign(r, id, ok)
  \/ \E ok \in StoreOutcomes : BanCheck(r, ok)
  \/ \E ok \in StoreOutcomes : RateCheck(r, ok)
  \/ \E ok \in StoreOutcomes : BanInsert(r, ok)
  \/ \E ok \in StoreOutcomes : Notify(r, ok)
  \/ Prepare(r)
  \/ \E ok \in StoreOutcomes : InsertPost(r, ok)
  \/ \E ok \in StoreOutcomes : InsertLog(r, ok)
  \/ \E ok \in StoreOutcomes : BotReply(r, ok)

\* requests overlap freely
Arrive ==
  /\ started < MaxReq
  /\ \E r \in Reqs :
       /\ req[r].pc \in {"idle", "done"}
       /\ \A q \in Reqs : q < r => req[q].pc \notin {"idle", "done"}
       /\ \E ip \in IPs : \E sub \in SubmissionsConc :
            \E ok \in StoreOutcomes : Lookup(r, ip, sub, ok)
  /\ UNCHANGED before

\* a request arrives only when the one before it has been answered
ArriveOne(limit, subs) ==
  /\ started < limit
  /\ req[1].pc \in {"idle", "done"}
  /\ \E ip \in IPs : \E sub \in subs :
       \E ok \in StoreOutcomes : Lookup(1, ip, sub, ok)
  /\ before' = Snapshot

ArriveSeq == ArriveOne(MaxReqSeq, Submissions)
ArriveList == ArriveOne(MaxReqList, SubmissionsConc)
ArriveVal == ArriveOne(MaxReqSeq, SubmissionsVal)

Handle == \E r \in Reqs : Step(r)
Pass == \E t \in TimesConc : Tick(t)
PassSeq == \E t \in Times : Tick(t)

Next == Arrive \/ Handle \/ Pass
Spec == Init /\ [][Next]_vars

NextSeq == ArriveSeq \/ Handle \/ PassSeq
SpecSeq == InitSeq /\ [][NextSeq]_vars

\* one request at a time, every shape of submission
NextVal == ArriveVal \/ Handle \/ PassSeq
SpecVal == InitVal /\ [][NextVal]_vars

\* one request at a time, on a store that holds RetentionCap posts
SpecGrown == InitGrown /\ [][NextSeq]_vars

\* listing requests beside a stream of submissions
List ==
  \/ \E query \in ListQueries : ListArrive(query.ip, query.public_id)
  \/ \E ok \in StoreOutcomes : ListLookup(ok)
  \/ \E ok \in StoreOutcomes : ListQuery(ok)

NextList == ArriveList \/ Handle \/ PassSeq \/ List
SpecList == InitList /\ [][NextList]_vars

(* ------------------------------------------------------------------ *)
(* Claims                                                              *)
(* ------------------------------------------------------------------ *)
\* rows of a posts-shaped table that carry public_id
CountPosts(table, public_id) ==
  CountRows(table, {row \in BagToSet(table) : row.public_id = public_id})

WindowMs == RATE_LIMIT_WINDOW_SECONDS * MsPerSecond
NoRows == [ip_to_id |-> {}, ban_list |-> {}, posts |-> {}, post_activity_log |-> {}]
Answered(q) == q.pc = "done"

\* C1: under any interleaving of create_post requests, no row with public_id
\* P is added to posts in a step taken while ban_list holds a record for P.
C1_BannedNeverInserts ==
  [][\A p \in PublicIds :
       CountPosts(posts', p) > CountPosts(posts, p) => SelectBan(p) = {}]_vars

\* C2: a request whose ban check found a ban_list record for its public_id is
\* answered 403 by that very step and never reached the rate check (so it is
\* never answered 429); posts, post_activity_log and ban_list are as they
\* were when it arrived.
C2_BannedGetsForbidden ==
  \A r \in Reqs :
    req[r].banned_seen =>
      /\ Answered(req[r]) /\ req[r].status = 403
      /\ "rate_check" \notin req[r].tried
      /\ req[r].wrote.posts = {} /\ req[r].wrote.post_activity_log = {}
      /\ req[r].wrote.ban_list = {}
      /\ posts = before.posts /\ post_activity_log = before.post_activity_log
      /\ ban_list = before.ban_list

\* a request of a banned identity has been refused
C2_Witness ==
  \E r \in Reqs :
    /\ req[r].banned_seen /\ Answered(req[r]) /\ req[r].status = 403
    /\ \E row \in before.ban_list : row.public_id = req[r].assigned_public_id

\* C3: with one request at a time, no store failure and every post inside
\* one 10-second window, the 4th valid post of an identity is accepted without
\* a ban and the 5th is answered 429, leaving a ban record for the identity
\* and one notification post.
C3_FifthPostTriggersBan ==
  LET q == req[1]
      earlier == CountPosts(before.posts, q.assigned_public_id)
  IN  (Answered(q) /\ faults = 0 /\ q.status \in {200, 429} /\ clock < WindowMs) =>
        /\ earlier = RATE_LIMIT_COUNT - 2 =>
             q.status = 200 /\ ban_list = before.ban_list
        /\ earlier = RATE_LIMIT_COUNT - 1 =>
             /\ q.status = 429
             /\ SelectBan(q.assigned_public_id) # {}
             /\ CountPosts(posts, "system") = CountPosts(before.posts, "system") + 1

\* C4 as stated: a request answered 429 has added no row besides the ban
\* record and the notification post.
C4_OnlyBanAndNotice ==
  \A r \in Reqs :
    (Answered(req[r]) /\ req[r].status = 429) =>
      /\ req[r].wrote.ip_to_id = {}
      /\ req[r].wrote.post_activity_log = {}
      /\ \A row \in req[r].wrote.posts : row.public_id # req[r].assigned_public_id

\* C4 as amended: a request answered 429 has added no posts row with its own
\* public_id and no post_activity_log row; the rows it has added are at most
\* the ban record of its public_id, one notification post by "system" and,
\* when its address had no mapping at the lookup, that address's mapping.
C4_NeverPersistsOffendingPost ==
  \A r \in Reqs :
    (Answered(req[r]) /\ req[r].status = 429) =>
      /\ req[r].wrote.post_activity_log = {}
      /\ \A row \in req[r].wrote.posts :
           row.public_id # req[r].assigned_public_id /\ row.public_id = "system"
      /\ Cardinality(req[r].wrote.posts) <= 1
      /\ \A row \in req[r].wrote.ban_list : row.public_id = req[r].assigned_public_id
      /\ \A row \in req[r].wrote.ip_to_id :
           ~req[r].known /\ row.ip_address = req[r].client_ip

C4_Witness ==
  \E r \in Reqs :
    /\ Answered(req[r]) /\ req[r].status = 429
    /\ req[r].wrote.ban_list # {} /\ req[r].wrote.posts # {}

\* C5: with one request at a time, a request from an address that had no
\* mapping when it arrived has, once its public_id is resolved, added exactly
\* one mapping, for its address and its public_id (unresolved, it is still to
\* insert the mapping or was answered 422 or 500); a request from an
\* address that had a mapping resolves to the mapped public_id, never tries to
\* insert a mapping and leaves ip_to_id as it was; no step changes or removes
\* a mapping.
C5_Resolution ==
  LET q == req[1]
      mapped == {row \in before.ip_to_id : row.ip_address = q.client_ip}
      own == [ip_address |-> q.client_ip, public_id |-> q.assigned_public_id]
  IN  q.pc # "idle" =>
        /\ mapped # {} =>
             /\ ip_to_id = before.ip_to_id
             /\ "assign" \notin q.tried /\ q.pc # "assign"
             /\ q.assigned_public_id # None => own \in mapped
             /\ (q.failed = {} /\ q.status # 422) => own \in mapped
        /\ (mapped = {} /\ q.assigned_public_id # None) =>
             /\ own \notin before.ip_to_id
             /\ ip_to_id = before.ip_to_id \cup {own}
        /\ (mapped = {} /\ q.assigned_public_id = None) =>
             /\ ip_to_id = before.ip_to_id
             /\ q.pc = "assign" \/ q.status \in {422, 500}

C5_MappingStable ==
  /\ []C5_Resolution
  /\ [][\A row \in ip_to_id : row \in ip_to_id']_vars

\* a request from ip2 reuses the mapping an earlier request created
C5_Witness ==
  /\ req[1].client_ip = "ip2" /\ req[1].status = 200
  /\ \E row \in before.ip_to_id : row.ip_address = "ip2"
  /\ ip_to_id = before.ip_to_id

\* C6: under any interleaving, ip_to_id holds at most one mapping per
\* address, all posts accepted from one address carry one public_id, and a
\* request whose mapping insert failed is answered 500 having added no post,
\* log or ban row.
C6_OneMappingPerIp ==
  /\ \A ip \in IPs : Cardinality({row \in ip_to_id : row.ip_address = ip}) <= 1
  /\ \A p1 \in BagToSet(posts) : \A p2 \in BagToSet(posts) :
       (p1.client_ip \in IPs /\ p1.client_ip = p2.client_ip) => p1.public_id = p2.public_id
  /\ \A r \in Reqs :
       "assign" \in req[r].failed =>
         /\ Answered(req[r]) /\ req[r].status = 500
         /\ req[r].wrote = NoRows

\* two first-time requests from one address overlapped: one lost the insert
\* to the store's constraint, the other's post was accepted
C6_Witness ==
  \E r \in Reqs :
    /\ "assign" \in req[r].failed /\ faults = 0
    /\ \E p \in BagToSet(posts) : p.client_ip = req[r].client_ip

\* C7: with one request at a time and no store failure, an accepted post whose
\* stripped body is "test" and that carries no image adds exactly two rows to
\* posts: the user's post and one system reply with the acknowledgement body
\* and a created_at strictly later than the user's post; any other accepted
\* post adds exactly the user's post.
C7_AutoReply ==
  LET q == req[1]
      is_test == Strip(q.sub.body) = TestStr /\ q.sub.image_base64 = None
      rows == BagToSet(posts)
  IN  (Answered(q) /\ q.status = 200 /\ q.failed = {}) =>
        IF is_test
        THEN \E u \in rows : \E b \in rows :
               /\ posts = (before.posts (+) SetToBag({u})) (+) SetToBag({b})
               /\ u.public_id = q.response.public_id /\ u.body = TestStr
               /\ u.client_ip = q.client_ip
               /\ b.body = AckBody /\ b.name = SystemName /\ b.public_id = "systems"
               /\ TsValue(b.created_at) > TsValue(u.created_at)
        ELSE \E u \in rows :
               /\ posts = before.posts (+) SetToBag({u})
               /\ u.public_id = q.response.public_id /\ u.client_ip = q.client_ip

C7_Witness ==
  /\ Answered(req[1]) /\ req[1].status = 200 /\ req[1].failed = {}
  /\ req[1].sub.body = PaddedTest
  /\ BagCardinality(posts) = BagCardinality(before.posts) + 2

\* C8: a request whose auto-reply insert failed is still answered with the
\* success response carrying its public_id, and its post and its activity-log
\* row are in the tables (one row more in each than when it arrived).
C8_ReplyFailureSwallowed ==
  \A r \in Reqs :
    "bot_reply" \in req[r].failed =>
      /\ Answered(req[r]) /\ req[r].status = 200
      /\ req[r].response.public_id = req[r].assigned_public_id
      /\ \E u \in BagToSet(posts) :
           /\ u.public_id = req[r].assigned_public_id /\ u.body = TestStr
           /\ u.client_ip = req[r].client_ip
           /\ u.created_at = IsoFormat(req[r].current_time)
      /\ \E l \in BagToSet(post_activity_log) :
           /\ l.public_id = req[r].assigned_public_id
           /\ l.posted_at = IsoFormat(req[r].current_time)
      /\ Cardinality(req[r].wrote.posts) = 1
      /\ BagCardinality(posts) = BagCardinality(before.posts) + 1
      /\ BagCardinality(post_activity_log) = BagCardinality(before.post_activity_log) + 1

C8_Witness == \E r \in Reqs : "bot_reply" \in req[r].failed /\ req[r].status = 200

\* C9: once the rate check has tripped, a failed ban_list insert or a failed
\* notification insert never ends the request with 500: the request is
\* answered 429, and after a failed ban_list insert the notification insert is
\* still attempted.
C9_BanFailuresSwallowed ==
  \A r \in Reqs :
    /\ "ban_insert" \in req[r].failed =>
         \/ req[r].pc = "notify"
         \/ Answered(req[r]) /\ req[r].status = 429 /\ "notify" \in req[r].tried
    /\ "notify" \in req[r].failed => Answered(req[r]) /\ req[r].status = 429

\* a duplicate ban record was refused and the notification still written
C9_Witness ==
  \E r \in Reqs :
    /\ "ban_insert" \in req[r].failed /\ faults = 0
    /\ req[r].status = 429 /\ req[r].wrote.posts # {}

\* the number of times row occurs in the sequence
Occurrences(seq, row) == Cardinality({i \in 1..Len(seq) : seq[i] = row})

\* C10: a listing answered 200 is in descending created_at order; asked with
\* an ip that had a mapping at the lookup, it holds exactly the posts (as of
\* the query) whose public_id is the mapped identifier; asked with an ip that
\* had no mapping, it is empty, answered 200, and posts was not queried; and
\* no step of a listing request changes a table.
C10_Answer ==
  (lst.pc = "done" /\ lst.status = 200) =>
    /\ \A i \in 1..Len(lst.posts) : \A j \in 1..Len(lst.posts) :
         i < j => TsValue(lst.posts[i].created_at) >= TsValue(lst.posts[j].created_at)
    /\ (lst.ip # None /\ lst.at_lookup = {}) => lst.posts = <<>> /\ ~lst.queried
    /\ (lst.ip # None /\ lst.at_lookup # {}) =>
         /\ lst.queried
         /\ \A m \in lst.at_lookup :
              /\ \A i \in 1..Len(lst.posts) : lst.posts[i].public_id = m.public_id
              /\ \A row \in BagToSet(lst.at_query) :
                   row.public_id = m.public_id =>
                     Occurrences(lst.posts, Columns(row)) =
                       CountRows(lst.at_query,
                         {x \in BagToSet(lst.at_query) :
                            Columns(x) = Columns(row) /\ x.public_id = m.public_id})
              /\ Len(lst.posts) = CountPosts(lst.at_query, m.public_id)

C10_Listing ==
  /\ []C10_Answer
  /\ [][lst' # lst => UNCHANGED tables]_vars

\* a listing by ip returned two or more posts of the mapped identifier while
\* posts of other authors were in the table
C10_Witness ==
  /\ lst.pc = "done" /\ lst.status = 200 /\ lst.ip # None
  /\ Len(lst.posts) >= 2
  /\ BagCardinality(lst.at_query) > Len(lst.posts)
  /\ \E i \in 1..Len(lst.posts) : \E j \in 1..Len(lst.posts) :
       TsValue(lst.posts[i].created_at) > TsValue(lst.posts[j].created_at)

\* a listing by an ip without mapping was answered with the empty list
C10_WitnessEmpty ==
  lst.pc = "done" /\ lst.status = 200 /\ lst.ip # None /\ lst.at_lookup = {}

\* C11: a listing asked with public_id and no ip, answered 200, holds only
\* posts whose public_id is the one asked for.
C11_FilterByPublicId ==
  (lst.pc = "done" /\ lst.status = 200 /\ lst.ip = None /\ lst.public_id # None) =>
    \A i \in 1..Len(lst.posts) : lst.posts[i].public_id = lst.public_id

\* C12: a request whose image is still longer than 500000 characters after
\* compression and re-encoding is answered 400 and has added no posts row and
\* no post_activity_log row.
C12_OversizeImageIs400 ==
  \A r \in Reqs :
    LET q == req[r]
    IN  (/\ Answered(q) /\ q.is_image_post
         /\ compress_and_re_encode_base64(q.sub.image_base64).len > MaxImageLen) =>
          /\ q.status = 400
          /\ q.wrote.posts = {} /\ q.wrote.post_activity_log = {}

\* C13 as stated: after a create_post insertion completes, posts holds at
\* most 100 rows.
C13_NeverAboveCap ==
  (Answered(req[1]) /\ req[1].status = 200) => BagCardinality(posts) <= RetentionCap

\* C13 as amended: the handler has no retention cap and evicts nothing: after
\* an accepted request posts holds every row it held when the request
\* arrived, as often as before, plus the rows the request wrote (its post
\* and, where triggered, the auto-reply), whatever the number of rows.
C13_NothingEvicted ==
  LET q == req[1]
  IN  (Answered(q) /\ q.status = 200) =>
        /\ NewPost(q) \in q.wrote.posts
        /\ posts = before.posts (+) SetToBag(q.wrote.posts)
        /\ BagCardinality(posts) > BagCardinality(before.posts)

\* the 101st post was accepted and posts holds 101 rows
C13_Witness ==
  /\ Answered(req[1]) /\ req[1].status = 200
  /\ BagCardinality(before.posts) = RetentionCap
  /\ BagCardinality(posts) = RetentionCap + 1

\* C14: the rate check is check-then-act.  The step that reads the count
\* changes no table (it reserves nothing), and what a request does afterwards
\* rests on the count it read alone: a request that goes on to insert read
\* fewer than 5 rows, a request that goes on to ban read 5 or more.  The
\* interleaving of the claim is C14_Witness.
C14_Decision ==
  \A r \in Reqs :
    /\ (req[r].pc \in {"prepare", "insert_post", "insert_log", "bot_reply"}
          \/ req[r].status = 200) => req[r].post_count < RATE_LIMIT_COUNT
    /\ (req[r].pc \in {"ban_insert", "notify"} \/ req[r].status = 429) =>
          req[r].post_count >= RATE_LIMIT_COUNT

C14_CheckThenAct ==
  /\ []C14_Decision
  /\ [][\A r \in Reqs :
         (req[r].pc = "rate_check" /\ req'[r].pc # "rate_check") => UNCHANGED tables]_vars

\* two overlapping requests of one identity each read 4 rows, no store call
\* failed, both were accepted: the identity has more than 5 accepted posts,
\* all stamped inside one window, and no ban is recorded
C14_Witness ==
  \E r1 \in Reqs : \E r2 \in Reqs \ {r1} :
    /\ req[r1].assigned_public_id = req[r2].assigned_public_id
    /\ req[r1].status = 200 /\ req[r2].status = 200
    /\ req[r1].post_count = RATE_LIMIT_COUNT - 1
    /\ req[r2].post_count = RATE_LIMIT_COUNT - 1
    /\ faults = 0 /\ ban_list = {} /\ clock < WindowMs
    /\ CountPosts(posts, req[r1].assigned_public_id) > RATE_LIMIT_COUNT
    /\ CountPosts(post_activity_log, req[r1].assigned_public_id) > RATE_LIMIT_COUNT

\* C15: under any interleaving in which no store call fails, ban_list holds
\* at most one record per public_id and posts holds at most one
\* ban-notification post per public_id.
C15_OneBanOneNotice ==
  \A p \in PublicIds :
    faults = 0 =>
    /\ Cardinality(SelectBan(p)) <= 1
    /\ CountRows(posts, {row \in BagToSet(posts) :
                           row.public_id = "system" /\ row.body = BanNotice(p)}) <= 1

\* every request has been answered or has not arrived
Quiet == \A r \in Reqs : req[r].pc \in {"idle", "done"}

\* C16: a request answered with the success response has inserted exactly one
\* posts row of its public_id and exactly one post_activity_log row with the
\* same public_id and timestamp; and whenever no request is in progress,
\* store failures on either insert included, post_activity_log holds as many
\* rows of a public_id as posts holds rows authored under it.
C16_OneLogRowPerPost ==
  /\ \A r \in Reqs :
       LET q == req[r]
           own == {row \in q.wrote.posts : row.public_id = q.assigned_public_id}
       IN  (Answered(q) /\ q.status = 200) =>
             /\ own = {NewPost(q)}
             /\ q.wrote.post_activity_log = {LogRow(q.assigned_public_id, q.current_time)}
             /\ NewPost(q).created_at = IsoFormat(q.current_time)
  /\ Quiet => \A p \in PublicIds :
                CountPosts(post_activity_log, p) = CountPosts(posts, p)

\* C17: a request whose ip_to_id lookup, ip_to_id insert, ban check query or
\* rate-count query failed is answered 500, attempted no store call after the
\* failed one, and has added no row to posts, post_activity_log or ban_list:
\* the three tables are as they were when it arrived.
C17_FailsClosed ==
  \A r \in Reqs :
    LET q == req[r]
    IN  q.failed \cap {"lookup", "assign", "ban_check", "rate_check"} # {} =>
          /\ Answered(q) /\ q.status = 500
          /\ Cardinality(q.failed) = 1
          /\ "lookup" \in q.failed => q.tried = {"lookup"}
          /\ "assign" \in q.failed => q.tried = {"lookup", "assign"}
          /\ "ban_check" \in q.failed => q.tried \subseteq {"lookup", "assign", "ban_check"}
          /\ "rate_check" \in q.failed =>
                q.tried \subseteq {"lookup", "assign", "ban_check", "rate_check"}
          /\ q.wrote.posts = {} /\ q.wrote.post_activity_log = {} /\ q.wrote.ban_list = {}
          /\ posts = before.posts /\ post_activity_log = before.post_activity_log
          /\ ban_list = before.ban_list

\* the rate-count query of a request failed: the request was answered 500
\* although the identity had reached the limit
C17_Witness ==
  \E r \in Reqs :
    /\ "rate_check" \in req[r].failed /\ req[r].status = 500
    /\ CountPosts(post_activity_log, req[r].assigned_public_id) >= RATE_LIMIT_COUNT

\* C18: validation rejects a submission exactly when (a) its stripped body is
\* empty and it supplies no image data, or (b) its stripped body is longer
\* than 200 characters; the body of a submission that passes is the stripped
\* body.  (A body left out of the JSON is the default, the empty string.)
C18_Validation ==
  LET q == req[1]
      body == IF q.sub.body_given THEN q.sub.body ELSE <<>>
      rejects == \/ Strip(body) = <<>> /\ q.sub.image_base64 = None
                 \/ Len(Strip(body)) > MaxBodyLen
  IN  (q.pc # "idle" /\ faults = 0) =>
        /\ q.status = 422 <=> rejects
        /\ q.status # 422 => q.clean_body = Strip(body)

\* the posts submitted under public_id and stamped in the window that ends at t
InWindow(table, public_id, t) ==
  CountRows(table, {x \in BagToSet(table) :
                      /\ x.name = AnonName /\ x.public_id = public_id
                      /\ TsValue(x.created_at) <= t
                      /\ TsValue(x.created_at) >= t - WindowMs})

\* C19: with one request at a time and no store failure, no 10-second window
\* ending at a post of an identity holds more than 5 accepted posts of that
\* identity; and a request of an identity that is not banned and has 5
\* accepted posts in the current window is answered 429, leaves a ban record
\* for the identity and adds no post of it.
C19_AtMostFiveInWindow ==
  faults = 0 =>
    /\ \A row \in BagToSet(posts) :
         InWindow(posts, row.public_id, TsValue(row.created_at)) <= RATE_LIMIT_COUNT
    /\ LET q == req[1]
           p == q.assigned_public_id
       IN  (/\ Answered(q) /\ p # None /\ clock <= WindowMs
            /\ \A row \in before.ban_list : row.public_id # p
            /\ InWindow(before.posts, p, clock) >= RATE_LIMIT_COUNT) =>
             /\ q.status = 429
             /\ SelectBan(p) # {}
             /\ CountPosts(posts, p) = CountPosts(before.posts, p)

\* a request arriving exactly 10 seconds after the first of 5 accepted posts
\* was answered 429 and the identity banned
C19_Witness ==
  /\ faults = 0 /\ Answered(req[1]) /\ req[1].status = 429
  /\ clock = WindowMs
  /\ InWindow(before.posts, req[1].assigned_public_id, clock) = RATE_LIMIT_COUNT
  /\ SelectBan(req[1].assigned_public_id) # {}

\* C20: no step removes or changes a stored row: every row of ip_to_id and
\* ban_list is in the table after the step, every row of posts and
\* post_activity_log is there at least as often as before; so a ban record
\* once written stays; and a step of get_posts changes no table.
C20_TablesOnlyGrow ==
  [][/\ ip_to_id \subseteq ip_to_id'
     /\ ban_list \subseteq ban_list'
     /\ posts \sqsubseteq posts'
     /\ post_activity_log \sqsubseteq post_activity_log'
     /\ lst' # lst => UNCHANGED tables]_vars

\* a request tripped the rate check and wrote the ban record and the notice;
\* a listing that ran afterwards saw the grown posts table, and the ban record
\* is still there
C20_Witness ==
  /\ Answered(req[1]) /\ req[1].status = 429
  /\ req[1].wrote.ban_list # {} /\ req[1].wrote.ban_list \subseteq ban_list
  /\ lst.pc = "done" /\ lst.status = 200 /\ lst.queried
  /\ lst.at_query = posts
  /\ BagCardinality(posts) > BagCardinality(before.posts)
  /\ before.posts \sqsubseteq posts

====
